---- MODULE Spec2Model ----
(***************************************************************************)
(* Verification model of surol/context-values: the entry resolution        *)
(* engine.                                                                 *)
(*                                                                         *)
(*   SpecSingle  - cxSingle(): the single-valued, memoized definer         *)
(*   SpecDynamic - cxDynamic(): the definer recomputed on asset changes    *)
(*   SpecUpKey   - SingleContextUpKey.grow(): the updatable single value   *)
(*   SpecIter    - IterativeContextSeeder: the seed of an iterative key    *)
(*   SpecDefine  - CxEntry.perContext(): the definition of an entry, made  *)
(*                 once per context                                        *)
(*   SpecUsage   - ContextModuleUsage: the uses, revisions and status of a  *)
(*                 context module                                          *)
(*   SpecThrow   - cxSingle() and the seed of an iterative key with asset  *)
(*                 evaluators and providers that throw                     *)
(*                                                                         *)
(* Every specification drives its own variables and leaves the variables   *)
(* of the others at their initial values.                                  *)
(***************************************************************************)
EXTENDS Integers, Sequences, FiniteSets, TLC

\* Most registrations (provide() calls) made for one entry in one run.
MaxProvides == 3

\* Most registrations made for a cxDynamic() entry in one run.
MaxDynProvides == 2

\* Most registrations made in a run in which asset evaluators or providers throw.
MaxThrowProvides == 2

\* Number of contexts (resolution scopes) in which the cxSingle entry is resolved.
NumScopes == 1

\* Most get() calls made for one entry in one context.
MaxGets == 3

\* Most calls made for the module in one run: the use() calls and the changes of the
\* implementation delivered through implementBy().
MaxCalls == 3

\* null / undefined: the null-equivalent "no value".
Null == "null"

\* What an asset evaluator or a provider does instead of returning: it throws. In the
\* place of a returned value it tells that the call threw.
Throw == "throw"

\* Number of contexts in which the cxDynamic entry is defined.
NumDynScopes == 1

Scopes == 1..NumScopes

DynScopes == 1..NumDynScopes

Ids == 1..(MaxProvides + 1)

\* The non-null value of the asset of the k-th registration: every registration provides
\* a value of its own, so that the values tell the registrations apart.
ValueOf(k) == <<"v1", "v2", "v3", "v4", "v5", "v6", "v7", "v8">>[k]

\* Non-null asset values.
Values == { ValueOf(k) : k \in Ids }

\* What the evaluator of the k-th registered asset may return.
AssetResults(k) == {ValueOf(k), Null}

VARIABLES
  sglAssets,     \* cxSingle entry: provided assets [id, val], in the order they are provided
  sglNextId,     \* number of the next registration
  sglVariant,    \* which cxSingle source is in use: "eachAsset" or "recentAsset"
  sglThrows,     \* whether asset evaluators that throw are provided in this run
  sglByDefault,  \* byDefault option of cxSingle: Null when omitted, else the default it creates
  sglGetMemo,    \* per scope: the lazyValue behind Definition.get
  sglDefMemo,    \* per scope: the lazyValue behind Definition.getDefault
  sglEvals,      \* per scope and asset id: how many times the evaluator was invoked
  sglComputes,   \* per scope: how many times the value was computed
  sglLast,       \* the last operation and what it returned
  dynAssets,     \* cxDynamic entry: provided assets [id, val], in the order they are provided
  dynNextId,     \* number of the next registration
  dynOpts,       \* options of cxDynamic: [create, byDefault], TRUE when the option is given
  dyn,           \* per scope: the variables closed over by the cxDynamic definition
  dynLast,       \* the last operation and what it did
  upProviders,   \* SingleContextUpKey: registered providers [id, val], in registration order
  upNextId,      \* number of the next registration
  upByDefault,   \* what the byDefault of the key returns (Null when the key has no default)
  upSlot,        \* the slot the value was grown in: [grown, hasFallback, or]
  upValue,       \* the current event of the grown AfterEvent keeper
  upReceiver,    \* the receiver of the value: [active, got, prev, failed, off]
  upSupply,      \* the ContextSupply of the context: "none", "on" or the reason it is cut off with
  upLast,        \* the last operation
  itProviders,   \* IterativeContextSeeder._providers: the provider functions, in order
  itRegs,        \* the provider of every provide() call so far, which its remover closes over
  itRemoved,     \* the registrations whose remover was called
  itThrows,      \* whether providers that throw are registered in this run
  itSeed,        \* the seed returned by seed(): [made, initial, atSeed, entries]
  itLast,        \* the last operation and what it yielded
  cxRecords,     \* per entry and context: [phase, perContextCalls, gets]
  cxStack,       \* the perContext() calls in progress, innermost last: <<entry, context>>
  cxLast,        \* the last operation
  mu,            \* ContextModuleUsage: [rev, counter, supplies, tasks, assets, log]
  muImpl,        \* the value of the _impl tracker: the module delivered last, Null for none
  muUsers,       \* per user supply: the uses registered on it, 0 when it is not in use
  muCalls,       \* how many calls were made
  muLast         \* the last operation: [op, supply, reason]

dynVars == <<dynAssets, dynNextId, dynOpts, dyn, dynLast>>

upVars == <<upProviders, upNextId, upByDefault, upSlot, upValue, upReceiver, upSupply,
           upLast>>

sglVars == <<sglAssets, sglNextId, sglVariant, sglThrows, sglByDefault, sglGetMemo,
             sglDefMemo, sglEvals, sglComputes, sglLast>>

itVars == <<itProviders, itRegs, itRemoved, itThrows, itSeed, itLast>>

cxVars == <<cxRecords, cxStack, cxLast>>

muVars == <<mu, muImpl, muUsers, muCalls, muLast>>

vars == <<sglVars, dynVars, upVars, itVars, cxVars, muVars>>

----------------------------------------------------------------------------
(* Helpers shared by the specifications *)

\* Indices of a sequence
Idx(s) == 1..Len(s)

\* The ids registered in a bucket
IdsOf(as) == { as[i].id : i \in Idx(as) }

\* Supply.off() of an asset supply: removes exactly that asset, keeps the order of the rest.
RemoveId(as, id) == SelectSeq(as, LAMBDA a : a.id # id)

\* A lazyValue() cell that was never evaluated.
NotEvaluated == [done |-> FALSE, value |-> Null]

----------------------------------------------------------------------------
(* cxSingle *)

\* for (i = assets.length - 1; i >= 0; --i) { value = assets[i](); if (value != null) break; }
\* Returns the value and the ids of the evaluators the loop invoked. An evaluator that
\* throws ends the loop, and the call, with what it throws.
RECURSIVE cxSingle_loop(_, _, _)
cxSingle_loop(as, i, called) ==
  IF i = 0
    THEN [value |-> Null, called |-> called]
    ELSE IF as[i].val = Throw
      THEN [value |-> Throw, called |-> called \cup {as[i].id}]
    ELSE IF as[i].val # Null
      THEN [value |-> as[i].val, called |-> called \cup {as[i].id}]
      ELSE cxSingle_loop(as, i - 1, called \cup {as[i].id})

\* Mutant of cxSingle_get: the loop runs from the first asset instead of the last one.
RECURSIVE cxSingle_loopUp(_, _, _)
cxSingle_loopUp(as, i, called) ==
  IF i > Len(as)
    THEN [value |-> Null, called |-> called]
    ELSE IF as[i].val # Null
      THEN [value |-> as[i].val, called |-> called \cup {as[i].id}]
      ELSE cxSingle_loopUp(as, i + 1, called \cup {as[i].id})

cxSingle_get_first(as) == cxSingle_loopUp(as, 1, {})

\* Mutant of cxSingle_get: the loop lacks the "value != null" test and stops at the
\* last asset whatever it evaluates to.
cxSingle_get_noskip(as) ==
  IF Len(as) = 0
    THEN [value |-> Null, called |-> {}]
    ELSE [value |-> as[Len(as)].val, called |-> {as[Len(as)].id}]

\* Mutant of cxSingle_get: an evaluator that throws is skipped like one that evaluates to
\* null.
RECURSIVE cxSingle_loopCatch(_, _, _)
cxSingle_loopCatch(as, i, called) ==
  IF i = 0
    THEN [value |-> Null, called |-> called]
    ELSE IF as[i].val \notin {Null, Throw}
      THEN [value |-> as[i].val, called |-> called \cup {as[i].id}]
      ELSE cxSingle_loopCatch(as, i - 1, called \cup {as[i].id})

cxSingle_get_catch(as) == cxSingle_loopCatch(as, Len(as), {})

\* The body of Definition.get of cxSingle: collect the evaluators with eachAsset, then
\* take the last one that evaluates to non-null.
cxSingle_get(as) == cxSingle_loop(as, Len(as), {})

\* target.recentAsset: the most recent asset that evaluates to non-null, if any.
recentAsset(as) ==
  LET present == { i \in Idx(as) : as[i].val # Null }
      top == IF present = {} THEN 0 ELSE CHOOSE i \in present : \A j \in present : j <= i
  IN [value |-> IF top = 0 THEN Null ELSE as[top].val,
      called |-> { as[i].id : i \in { j \in Idx(as) : j >= top /\ j >= 1 } }]

\* Mutant of lazyValue: the provider is evaluated on every call.
lazyValue_everyCall(memo, computed) ==
  [memo |-> [done |-> TRUE, value |-> computed.value],
   value |-> computed.value, called |-> computed.called, ran |-> TRUE]

\* lazyValue(provider): evaluates the provider on the first call only, then returns the
\* remembered result (a null result is remembered too). When the provider throws there
\* is no result to remember, and the call throws.
lazyValue(memo, computed) ==
  IF memo.done
    THEN [memo |-> memo, value |-> memo.value, called |-> {}, ran |-> FALSE]
    ELSE IF computed.value = Throw
      THEN [memo |-> memo, value |-> Throw, called |-> computed.called, ran |-> TRUE]
      ELSE [memo |-> [done |-> TRUE, value |-> computed.value],
            value |-> computed.value, called |-> computed.called, ran |-> TRUE]

\* builder.provide(asset) for the cxSingle entry
SglProvide(v) ==
  /\ sglNextId <= (IF sglThrows THEN MaxThrowProvides ELSE MaxProvides)
  /\ v = Throw => sglThrows
  /\ sglAssets' = Append(sglAssets, [id |-> sglNextId, val |-> v])
  /\ sglNextId' = sglNextId + 1
  /\ sglLast' = [op |-> "provide", scope |-> 0, value |-> Null, fresh |-> FALSE]
  /\ UNCHANGED <<sglVariant, sglThrows, sglByDefault, sglGetMemo, sglDefMemo, sglEvals,
                 sglComputes>>
  /\ UNCHANGED <<dynVars, upVars, itVars, cxVars, muVars>>

\* supply.off() of a provided asset
SglRevoke(id) ==
  /\ id \in IdsOf(sglAssets)
  /\ sglAssets' = RemoveId(sglAssets, id)
  /\ sglLast' = [op |-> "revoke", scope |-> 0, value |-> Null, fresh |-> FALSE]
  /\ UNCHANGED <<sglNextId, sglVariant, sglThrows, sglByDefault, sglGetMemo, sglDefMemo,
                 sglEvals, sglComputes>>
  /\ UNCHANGED <<dynVars, upVars, itVars, cxVars, muVars>>

\* Definition.get() of the cxSingle definition of scope s
SglGet(s) ==
  /\ UNCHANGED <<dynVars, upVars, itVars, cxVars, muVars>>
  /\ LET computed == IF sglVariant = "eachAsset" THEN cxSingle_get(sglAssets)
                     ELSE recentAsset(sglAssets)
         r == lazyValue(sglGetMemo[s], computed)
     IN /\ sglGetMemo' = [sglGetMemo EXCEPT ![s] = r.memo]
        /\ sglEvals' = [sglEvals EXCEPT ![s] =
                          [id \in Ids |-> IF id \in r.called /\ @[id] < 2 THEN @[id] + 1
                                                                         ELSE @[id]]]
        /\ sglComputes' = [sglComputes EXCEPT ![s] = IF r.ran /\ @ < 2 THEN @ + 1 ELSE @]
        /\ sglLast' = [op |-> "get", scope |-> s, value |-> r.value, fresh |-> r.ran]
        /\ UNCHANGED <<sglAssets, sglNextId, sglVariant, sglThrows, sglByDefault, sglDefMemo>>

\* Definition.getDefault() of scope s: byDefault && lazyValue(() => byDefault(target))
SglGetDefault(s) ==
  /\ sglByDefault # Null
  /\ LET r == lazyValue(sglDefMemo[s], [value |-> sglByDefault, called |-> {}])
     IN /\ sglDefMemo' = [sglDefMemo EXCEPT ![s] = r.memo]
        /\ sglLast' = [op |-> "getDefault", scope |-> s, value |-> r.value, fresh |-> r.ran]
  /\ UNCHANGED <<sglAssets, sglNextId, sglVariant, sglThrows, sglByDefault, sglGetMemo,
                 sglEvals, sglComputes>>
  /\ UNCHANGED <<dynVars, upVars, itVars, cxVars, muVars>>

SglInit ==
  /\ sglAssets = <<>>
  /\ sglNextId = 1
  /\ sglVariant \in {"eachAsset", "recentAsset"}
  /\ sglThrows = FALSE
  /\ sglByDefault \in {Null, "dflt"}
  /\ sglGetMemo = [s \in Scopes |-> NotEvaluated]
  /\ sglDefMemo = [s \in Scopes |-> NotEvaluated]
  /\ sglEvals = [s \in Scopes |-> [id \in Ids |-> 0]]
  /\ sglComputes = [s \in Scopes |-> 0]
  /\ sglLast = [op |-> "init", scope |-> 0, value |-> Null, fresh |-> FALSE]

\* cxSingle with a default, in a run where asset evaluators may throw
SglThrowInit ==
  /\ sglAssets = <<>>
  /\ sglNextId = 1
  /\ sglVariant = "eachAsset"
  /\ sglThrows = TRUE
  /\ sglByDefault = "dflt"
  /\ sglGetMemo = [s \in Scopes |-> NotEvaluated]
  /\ sglDefMemo = [s \in Scopes |-> NotEvaluated]
  /\ sglEvals = [s \in Scopes |-> [id \in Ids |-> 0]]
  /\ sglComputes = [s \in Scopes |-> 0]
  /\ sglLast = [op |-> "init", scope |-> 0, value |-> Null, fresh |-> FALSE]

SglNext ==
  \/ \E v \in AssetResults(sglNextId) \cup {Throw} : SglProvide(v)
  \/ \E id \in Ids : SglRevoke(id)
  \/ \E s \in Scopes : SglGet(s)
  \/ \E s \in Scopes : SglGetDefault(s)

\* The variables of cxSingle while another specification runs
SglIdle ==
  /\ sglAssets = <<>>
  /\ sglNextId = 1
  /\ sglVariant = "eachAsset"
  /\ sglThrows = FALSE
  /\ sglByDefault = Null
  /\ sglGetMemo = [s \in Scopes |-> NotEvaluated]
  /\ sglDefMemo = [s \in Scopes |-> NotEvaluated]
  /\ sglEvals = [s \in Scopes |-> [id \in Ids |-> 0]]
  /\ sglComputes = [s \in Scopes |-> 0]
  /\ sglLast = [op |-> "init", scope |-> 0, value |-> Null, fresh |-> FALSE]

----------------------------------------------------------------------------
(* cxDynamic *)

\* Reasons a context supply is cut off with.
Reasons == {"R1", "R2"}

\* The entry defined by cxDynamic.
DynEntry == "dynEntry"

\* No internal state (getState is not assigned yet).
NoState == [by |-> "unset", assets |-> <<>>]

\* getState = getDefaultState: the state is whatever getDefaultState() returns.
DefaultGetter == [by |-> "getDefaultState", assets |-> <<>>]

\* getState = cxUnavailable(...): the state accessor throws.
UnavailableGetter == [by |-> "cxUnavailable", assets |-> <<>>]

\* No error was thrown.
NoError == [type |-> "none", entry |-> Null, reason |-> Null]

\* new CxReferenceError(entry, message, reason)
CxReferenceError(entry, reason) == [type |-> "CxReferenceError", entry |-> entry, reason |-> reason]

\* The closure variables of a definition that is not created yet, in a context whose
\* supply is in the given condition ("on" or the reason it was cut off with).
DynUndefined(supply) ==
  [defined |-> FALSE, supply |-> supply,
   getAssign |-> "lazy", reason |-> Null,
   method |-> "none", state |-> NoState,
   defMemo |-> [done |-> FALSE, value |-> NoState],
   byDefaultCalls |-> 0, created |-> FALSE, updated |-> FALSE]

\* for (const provided of list) provided.eachAsset(asset => assets.push(asset)):
\* the assets of the list in delivery order; a provider of null contributes none.
CollectAssets(list) ==
  LET present == SelectSeq(list, LAMBDA a : a.val # Null)
  IN [i \in Idx(present) |-> present[i].val]

\* create(assets, target): the option when given, else cxDynamic$create, which returns
\* the assets array itself.
create(opts, assets) ==
  IF opts.create THEN [by |-> "create", assets |-> assets]
                 ELSE [by |-> "array", assets |-> assets]

\* Mutant of hasDefault: the entry has a default only when byDefault is given.
hasDefault_byDefaultOnly(opts) == opts.byDefault

\* Mutant of hasDefault: every entry is taken to have a default.
hasDefault_always(opts) == TRUE

\* hasDefault = byDefault || !create
hasDefault(opts) == opts.byDefault \/ ~opts.create

\* target.lazy(fn): evaluates fn on the first call only and remembers the result.
targetLazy(memo, computed) ==
  IF memo.done
    THEN [memo |-> memo, value |-> memo.value, ran |-> FALSE]
    ELSE [memo |-> [done |-> TRUE, value |-> computed], value |-> computed, ran |-> TRUE]

\* cxUnavailable(entry, message, reason): a function that throws CxReferenceError.
cxUnavailable(entry, reason) == CxReferenceError(entry, reason)

\* cxRecent$access, the default of the access option: the value accessor is the state
\* accessor.
access(state) == state

\* Mutant of getDefaultState: byDefault is not wrapped in target.lazy.
getDefaultState_notLazy(opts, d) ==
  IF opts.byDefault
    THEN [d |-> [d EXCEPT !.byDefaultCalls = @ + 1,
                          !.defMemo = [done |-> TRUE, value |-> [by |-> "byDefault", assets |-> <<>>]]],
          value |-> [by |-> "byDefault", assets |-> <<>>], error |-> NoError]
    ELSE IF opts.create
      THEN [d |-> d, value |-> NoState, error |-> cxUnavailable(DynEntry, Null)]
      ELSE [d |-> d, value |-> [by |-> "array", assets |-> <<>>], error |-> NoError]

\* getDefaultState(): target.lazy(byDefault) when byDefault is given; else
\* cxUnavailable(target.entry) when create is given; else cxDynamic$byDefault, the empty
\* array. Returns the closure variables after the call, the state and the error thrown.
getDefaultState(opts, d) ==
  IF d.defMemo.value = UnavailableGetter
    THEN [d |-> d, value |-> NoState, error |-> cxUnavailable(DynEntry, d.reason)]
  ELSE IF opts.byDefault
    THEN LET r == targetLazy(d.defMemo, [by |-> "byDefault", assets |-> <<>>])
         IN [d |-> [d EXCEPT !.defMemo = r.memo,
                             !.byDefaultCalls = IF r.ran THEN @ + 1 ELSE @],
             value |-> r.value, error |-> NoError]
    ELSE IF opts.create
      THEN [d |-> d, value |-> NoState, error |-> cxUnavailable(DynEntry, Null)]
      ELSE [d |-> d, value |-> [by |-> "array", assets |-> <<>>], error |-> NoError]

\* getState(): the state created at the last change of the asset list, or the default one.
getState(opts, d) ==
  IF d.state = DefaultGetter
    THEN getDefaultState(opts, d)
    ELSE IF d.state = UnavailableGetter
      THEN [d |-> d, value |-> NoState, error |-> cxUnavailable(DynEntry, d.reason)]
      ELSE [d |-> d, value |-> d.state, error |-> NoError]

\* Mutant of trackReceiver: create receives the most recent asset only, not the list.
trackReceiver_delta(opts, d, list) ==
  LET assets == CollectAssets(list)
  IN IF Len(assets) > 0
       THEN [d EXCEPT !.state = create(opts, <<assets[Len(assets)]>>), !.method = "Assets",
                      !.created = TRUE]
       ELSE [d EXCEPT !.method = "Defaults", !.state = DefaultGetter]

\* Mutant of trackReceiver: the state accessor is assigned once (getState ||= ...), so a
\* state created for a later list is dropped.
trackReceiver_keepState(opts, d, list) ==
  LET assets == CollectAssets(list)
  IN IF Len(assets) > 0
       THEN [d EXCEPT !.state = IF @ = NoState THEN create(opts, assets) ELSE @,
                      !.method = "Assets", !.created = TRUE]
       ELSE [d EXCEPT !.method = "Defaults",
                      !.state = IF @ = NoState THEN DefaultGetter ELSE @]

\* Mutant of trackReceiver: the method is not reset when the list has no assets.
trackReceiver_staleMethod(opts, d, list) ==
  LET assets == CollectAssets(list)
  IN IF Len(assets) > 0
       THEN [d EXCEPT !.state = create(opts, assets), !.method = "Assets",
                      !.created = TRUE]
       ELSE [d EXCEPT !.method = IF @ = "none" THEN "Defaults" ELSE @,
                      !.state = DefaultGetter]

\* Mutant of trackReceiver: create is invoked for an empty list of assets too.
trackReceiver_createAlways(opts, d, list) ==
  LET assets == CollectAssets(list)
  IN [d EXCEPT !.state = create(opts, assets), !.created = TRUE,
               !.method = IF Len(assets) > 0 THEN "Assets" ELSE "Defaults"]

\* The receiver passed to target.trackAssetList: builds the state of the given list.
trackReceiver(opts, d, list) ==
  LET assets == CollectAssets(list)
  IN IF Len(assets) > 0
       THEN [d EXCEPT !.state = create(opts, assets), !.method = "Assets",
                      !.created = TRUE]
       ELSE [d EXCEPT !.method = "Defaults", !.state = DefaultGetter]

\* target.trackAssetList(receiver) reports the list to the receiver at once, and again
\* after every change of the list for as long as the target's supply is not cut off.
Tracking(d) == d.getAssign = "ready" /\ d.supply = "on"

\* Mutant of whenOff: getAssign is left out of the accessors that are replaced.
whenOff_keepAssign(d, reason) == [d EXCEPT !.reason = reason]

\* target.supply.whenOff(reason => ...): every accessor becomes
\* cxUnavailable(target.entry, undefined, reason) - getDefaultState (and with it the
\* remembered default state), getState, and getAssign, through which assign() and
\* assignDefault() enter; getDefaultValue and getValue are reached from getAssign only.
whenOff(d, reason) ==
  [d EXCEPT !.getAssign = "unavailable", !.reason = reason,
            !.state = UnavailableGetter,
            !.defMemo = [done |-> FALSE, value |-> UnavailableGetter]]

\* Mutant of assignFn: assignDefault() passes the current value like assign() does.
assignFn_defaultIsCurrent(opts, d, isDefault) ==
  LET none == [d |-> d, called |-> FALSE, value |-> NoState, method |-> "none",
               error |-> NoError]
      pass(r, m) == IF r.error # NoError
                      THEN [d |-> r.d, called |-> FALSE, value |-> NoState, method |-> "none",
                            error |-> r.error]
                      ELSE [d |-> r.d, called |-> TRUE, value |-> access(r.value),
                            method |-> m, error |-> NoError]
  IN IF hasDefault(opts)
       THEN pass(getState(opts, d), IF isDefault THEN "none" ELSE d.method)
       ELSE IF ~isDefault /\ d.method = "Assets"
              THEN pass(getState(opts, d), d.method)
              ELSE none

\* The function returned by getAssign(), applied to (assigner, isDefault).
\* Returns the closure variables after the call and what the assigner was called with.
assignFn(opts, d, isDefault) ==
  LET none == [d |-> d, called |-> FALSE, value |-> NoState, method |-> "none",
               error |-> NoError]
      pass(r, m) == IF r.error # NoError
                      THEN [d |-> r.d, called |-> FALSE, value |-> NoState, method |-> "none",
                            error |-> r.error]
                      ELSE [d |-> r.d, called |-> TRUE, value |-> access(r.value),
                            method |-> m, error |-> NoError]
  IN IF hasDefault(opts)
       THEN IF isDefault THEN pass(getDefaultState(opts, d), "none")
                         ELSE pass(getState(opts, d), d.method)
       ELSE IF ~isDefault /\ d.method = "Assets"
              THEN pass(getState(opts, d), d.method)
              ELSE none

\* Mutant of assignCall: getAssign is not lazy, every call subscribes anew and the
\* subscription of an earlier call is not kept.
assignCall_notLazy(opts, d, list, isDefault) ==
  IF d.getAssign = "unavailable"
    THEN [d |-> d, called |-> FALSE, value |-> NoState, method |-> "none",
          error |-> cxUnavailable(DynEntry, d.reason)]
    ELSE assignFn(opts, trackReceiver(opts, [d EXCEPT !.getAssign = "lazy"], list), isDefault)

\* getAssign()(assigner, isDefault): getAssign is target.lazy(...), which on its first
\* call starts the tracking of the asset list.
assignCall(opts, d, list, isDefault) ==
  IF d.getAssign = "unavailable"
    THEN [d |-> d, called |-> FALSE, value |-> NoState, method |-> "none",
          error |-> cxUnavailable(DynEntry, d.reason)]
    ELSE IF d.getAssign = "lazy"
      THEN assignFn(opts, trackReceiver(opts, [d EXCEPT !.getAssign = "ready"], list),
                    isDefault)
      ELSE assignFn(opts, d, isDefault)

DynLastOf(op, s, r) ==
  [op |-> op, scope |-> s, called |-> r.called, value |-> r.value, method |-> r.method,
   error |-> r.error]

DynNoResult(op, s) ==
  [op |-> op, scope |-> s, called |-> FALSE, value |-> NoState, method |-> "none",
   error |-> NoError]

\* The closure variables at the start of an operation: created tells whether create was
\* invoked in the course of the operation, updated whether the receiver was ever called
\* again after the first report of the list.
DynStart == [s \in DynScopes |-> [dyn[s] EXCEPT !.created = FALSE]]

\* The tracked list changed: the receiver of every tracking definition is called.
DynNotify(list) ==
  [s \in DynScopes |->
     IF Tracking(dyn[s])
       THEN trackReceiver(dynOpts, [DynStart[s] EXCEPT !.updated = TRUE], list)
       ELSE DynStart[s]]

\* builder.provide(asset) for the cxDynamic entry
DynProvide(v) ==
  /\ dynNextId <= MaxDynProvides
  /\ dynAssets' = Append(dynAssets, [id |-> dynNextId, val |-> v])
  /\ dynNextId' = dynNextId + 1
  /\ dyn' = DynNotify(dynAssets')
  /\ dynLast' = DynNoResult("provide", 0)
  /\ UNCHANGED dynOpts
  /\ UNCHANGED <<sglVars, upVars, itVars, cxVars, muVars>>

\* supply.off() of a provided asset
DynRevoke(id) ==
  /\ id \in IdsOf(dynAssets)
  /\ dynAssets' = RemoveId(dynAssets, id)
  /\ dyn' = DynNotify(dynAssets')
  /\ dynLast' = DynNoResult("revoke", 0)
  /\ UNCHANGED <<dynNextId, dynOpts>>
  /\ UNCHANGED <<sglVars, upVars, itVars, cxVars, muVars>>

\* entry.perContext(target) in scope s: the definer returned by cxDynamic creates the
\* definition. whenOff calls back at once when the supply is cut off already.
DynDefine(s) ==
  /\ ~dyn[s].defined
  /\ dyn' = [DynStart EXCEPT ![s] =
               LET d == [@ EXCEPT !.defined = TRUE]
               IN IF d.supply = "on" THEN d ELSE whenOff(d, d.supply)]
  /\ dynLast' = DynNoResult("define", s)
  /\ UNCHANGED <<dynAssets, dynNextId, dynOpts>>
  /\ UNCHANGED <<sglVars, upVars, itVars, cxVars, muVars>>

\* target.supply.off(reason) of scope s
DynOff(s, reason) ==
  /\ dyn[s].supply = "on"
  /\ dyn' = [DynStart EXCEPT ![s] =
               LET d == [@ EXCEPT !.supply = reason]
               IN IF d.defined THEN whenOff(d, reason) ELSE d]
  /\ dynLast' = DynNoResult("off", s)
  /\ UNCHANGED <<dynAssets, dynNextId, dynOpts>>
  /\ UNCHANGED <<sglVars, upVars, itVars, cxVars, muVars>>

\* definition.assign(assigner) in scope s
DynAssign(s) ==
  /\ dyn[s].defined
  /\ LET r == assignCall(dynOpts, DynStart[s], dynAssets, FALSE)
     IN /\ dyn' = [DynStart EXCEPT ![s] = r.d]
        /\ dynLast' = DynLastOf("assign", s, r)
  /\ UNCHANGED <<dynAssets, dynNextId, dynOpts>>
  /\ UNCHANGED <<sglVars, upVars, itVars, cxVars, muVars>>

\* definition.assignDefault(assigner) in scope s
DynAssignDefault(s) ==
  /\ dyn[s].defined
  /\ LET r == assignCall(dynOpts, DynStart[s], dynAssets, TRUE)
     IN /\ dyn' = [DynStart EXCEPT ![s] = r.d]
        /\ dynLast' = DynLastOf("assignDefault", s, r)
  /\ UNCHANGED <<dynAssets, dynNextId, dynOpts>>
  /\ UNCHANGED <<sglVars, upVars, itVars, cxVars, muVars>>

DynInit ==
  /\ dynAssets = <<>>
  /\ dynNextId = 1
  /\ dynOpts \in [create : BOOLEAN, byDefault : BOOLEAN]
  /\ dyn = [s \in DynScopes |-> DynUndefined("on")]
  /\ dynLast = DynNoResult("init", 0)

\* The variables of cxDynamic while another specification runs
DynIdle ==
  /\ dynAssets = <<>>
  /\ dynNextId = 1
  /\ dynOpts = [create |-> FALSE, byDefault |-> FALSE]
  /\ dyn = [s \in DynScopes |-> DynUndefined("on")]
  /\ dynLast = DynNoResult("init", 0)

DynNext ==
  \/ \E v \in AssetResults(dynNextId) : DynProvide(v)
  \/ \E id \in Ids : DynRevoke(id)
  \/ \E s \in DynScopes : DynDefine(s)
  \/ \E s \in DynScopes, r \in Reasons : DynOff(s, r)
  \/ \E s \in DynScopes : DynAssign(s)
  \/ \E s \in DynScopes : DynAssignDefault(s)

----------------------------------------------------------------------------
(* SingleContextUpKey *)

\* A falsy value that is neither null nor undefined (an empty string).
Empty == ""

\* The default value of the key, when it has one that is truthy.
DefaultValue == "default"

\* The value of the fallback keeper of a request: afterThe('fallback').
FallbackValue == "fallback"

\* JavaScript truthiness of a value
Truthy(v) == v # Null /\ v # Empty

\* afterThe(v): a keeper of the value v
afterThe(v) == [kind |-> "keeper", val |-> v]

\* afterEventBy(() => { throw new ContextKeyError(this) })
KeyErrorKeeper == [kind |-> "ContextKeyError", val |-> Null]

\* No keeper (null or undefined)
NoKeeper == [kind |-> "none", val |-> Null]

\* A bare value in the place of a keeper
Bare(v) == [kind |-> "bare", val |-> v]

\* slot.seed: the sources of the key, that is what the registered providers provide, in
\* registration order; a provider of null or undefined provides no source.
UpSources(providers) ==
  LET present == SelectSeq(providers, LAMBDA p : p.val # Null)
  IN [i \in Idx(present) |-> present[i].val]

\* The slot of a request: slot.hasFallback and slot.or (the value of the fallback keeper,
\* Null for an `or` of null or undefined).
UpSlots ==
  {[grown |-> TRUE, hasFallback |-> FALSE, or |-> Null],
   [grown |-> TRUE, hasFallback |-> TRUE, or |-> Null],
   [grown |-> TRUE, hasFallback |-> TRUE, or |-> FallbackValue]}

NotGrown == [grown |-> FALSE, hasFallback |-> FALSE, or |-> Null]

\* Mutant of grow: the first source is taken instead of the last one.
grow_firstSource(sources, slot, byDefault) ==
  IF Len(sources) > 0
    THEN afterThe(sources[1])
    ELSE LET backup == IF slot.hasFallback
                         THEN IF slot.or = Null THEN NoKeeper ELSE afterThe(slot.or)
                         ELSE IF Truthy(byDefault) THEN afterThe(byDefault)
                              ELSE IF byDefault = Null THEN NoKeeper ELSE Bare(byDefault)
         IN IF backup # NoKeeper THEN backup ELSE KeyErrorKeeper

\* Mutant of grow: the default is tried before the fallback.
grow_defaultFirst(sources, slot, byDefault) ==
  IF Len(sources) > 0
    THEN afterThe(sources[Len(sources)])
    ELSE LET backup == IF Truthy(byDefault)
                         THEN afterThe(byDefault)
                         ELSE IF slot.hasFallback /\ slot.or # Null THEN afterThe(slot.or)
                              ELSE NoKeeper
         IN IF backup # NoKeeper THEN backup ELSE KeyErrorKeeper

\* Mutant of grow: a null fallback counts as no fallback, so that the default is used.
grow_nullFallbackIgnored(sources, slot, byDefault) ==
  IF Len(sources) > 0
    THEN afterThe(sources[Len(sources)])
    ELSE LET backup == IF slot.hasFallback /\ slot.or # Null
                         THEN afterThe(slot.or)
                         ELSE IF Truthy(byDefault) THEN afterThe(byDefault)
                              ELSE IF byDefault = Null THEN NoKeeper ELSE Bare(byDefault)
         IN IF backup # NoKeeper THEN backup ELSE KeyErrorKeeper

\* Mutant of grow: the backup is returned as it is, without the error response in the
\* place of an absent one.
grow_noErrorResponse(sources, slot, byDefault) ==
  IF Len(sources) > 0
    THEN afterThe(sources[Len(sources)])
    ELSE IF slot.hasFallback
           THEN IF slot.or = Null THEN NoKeeper ELSE afterThe(slot.or)
           ELSE IF Truthy(byDefault) THEN afterThe(byDefault)
                ELSE IF byDefault = Null THEN NoKeeper ELSE Bare(byDefault)

\* The function SingleContextUpKey.grow passes to digAfter: what the value is for the
\* given sources.
grow(sources, slot, byDefault) ==
  IF Len(sources) > 0
    THEN afterThe(sources[Len(sources)])
    ELSE LET backup == IF slot.hasFallback
                         THEN IF slot.or = Null THEN NoKeeper ELSE afterThe(slot.or)
                         ELSE \* defaultValue && afterThe(defaultValue)
                              IF Truthy(byDefault) THEN afterThe(byDefault)
                              ELSE IF byDefault = Null THEN NoKeeper ELSE Bare(byDefault)
         IN IF backup # NoKeeper THEN backup ELSE KeyErrorKeeper

\* No receiver is registered: failed tells whether a registration raised the error of the
\* value, off the reason the receiver was cut off with.
NoReceiver ==
  [active |-> FALSE, got |-> NoKeeper, prev |-> NoKeeper, failed |-> FALSE, off |-> Null]

\* Mutant of supplyAfter: the receivers do not depend on the context supply.
supplyAfter_independent(r, supply) == r

\* value.do(supplyAfter(supply)): the supply of every receiver needs the context supply,
\* so that a receiver is cut off with the reason the context supply is cut off with.
supplyAfter(r, supply) ==
  IF supply \in Reasons THEN [r EXCEPT !.active = FALSE, !.off = supply] ELSE r

\* An event of the keeper reaches the registered receiver.
UpDeliver(r, event) ==
  IF r.active THEN [r EXCEPT !.got = event, !.prev = r.got] ELSE r

\* The seed sends the sources anew: the value and the receiver follow.
UpSeedChanged(providers) ==
  IF upSlot.grown
    THEN LET event == grow(UpSources(providers), upSlot, upByDefault)
         IN /\ upValue' = event
            /\ upReceiver' = UpDeliver(upReceiver, event)
    ELSE UNCHANGED <<upValue, upReceiver>>

\* registry.provide({ a: key, is: v })
UpProvide(v) ==
  /\ upNextId <= MaxProvides
  /\ upProviders' = Append(upProviders, [id |-> upNextId, val |-> v])
  /\ upNextId' = upNextId + 1
  /\ UpSeedChanged(upProviders')
  /\ upLast' = "provide"
  /\ UNCHANGED <<upByDefault, upSlot, upSupply>>
  /\ UNCHANGED <<sglVars, dynVars, itVars, cxVars, muVars>>

\* The remover returned by registry.provide(): does nothing when the provider is removed
\* already.
UpRemove(id) ==
  /\ id < upNextId
  /\ IF id \in IdsOf(upProviders)
       THEN /\ upProviders' = RemoveId(upProviders, id)
            /\ UpSeedChanged(upProviders')
       ELSE UNCHANGED <<upProviders, upValue, upReceiver>>
  /\ upLast' = "remove"
  /\ UNCHANGED <<upNextId, upByDefault, upSlot, upSupply>>
  /\ UNCHANGED <<sglVars, dynVars, itVars, cxVars, muVars>>

\* values.get(key, request): the value is grown in the slot of the request.
UpGet(slot) ==
  /\ ~upSlot.grown
  /\ upSlot' = slot
  /\ upValue' = grow(UpSources(upProviders), slot, upByDefault)
  /\ upLast' = "get"
  /\ UNCHANGED <<upProviders, upNextId, upByDefault, upReceiver, upSupply>>
  /\ UNCHANGED <<sglVars, dynVars, itVars, cxVars, muVars>>

\* value.to(receiver): the receiver receives the current value at once; registering it
\* raises the error when the value is absent. A receiver registered after the context
\* supply is cut off is cut off before anything is sent to it.
UpReceive ==
  /\ upSlot.grown
  /\ ~upReceiver.active
  /\ LET registered ==
           IF upSupply \in Reasons
             THEN [NoReceiver EXCEPT !.failed = upReceiver.failed]
             ELSE [active |-> upValue.kind = "keeper", got |-> upValue, prev |-> NoKeeper,
                   failed |-> upReceiver.failed \/ upValue.kind # "keeper", off |-> Null]
     IN upReceiver' = IF upSupply = "none" THEN registered
                                           ELSE supplyAfter(registered, upSupply)
  /\ upLast' = "receive"
  /\ UNCHANGED <<upProviders, upNextId, upByDefault, upSlot, upValue, upSupply>>
  /\ UNCHANGED <<sglVars, dynVars, itVars, cxVars, muVars>>

\* contextSupply.off(reason): the supply the context provides under ContextSupply is cut off
UpSupplyOff(reason) ==
  /\ upSupply = "on"
  /\ upSupply' = reason
  /\ upReceiver' = IF upReceiver.active THEN supplyAfter(upReceiver, reason) ELSE upReceiver
  /\ upLast' = "off"
  /\ UNCHANGED <<upProviders, upNextId, upByDefault, upSlot, upValue>>
  /\ UNCHANGED <<sglVars, dynVars, itVars, cxVars, muVars>>

UpInit ==
  /\ upProviders = <<>>
  /\ upNextId = 1
  /\ upByDefault \in {Null, Empty, DefaultValue}
  /\ upSlot = NotGrown
  /\ upValue = NoKeeper
  /\ upReceiver = NoReceiver
  /\ upSupply \in {"none", "on"}
  /\ upLast = "init"

\* The variables of SingleContextUpKey while another specification runs
UpIdle ==
  /\ upProviders = <<>>
  /\ upNextId = 1
  /\ upByDefault = Null
  /\ upSlot = NotGrown
  /\ upValue = NoKeeper
  /\ upReceiver = NoReceiver
  /\ upSupply = "none"
  /\ upLast = "init"

UpNext ==
  \/ \E v \in AssetResults(upNextId) : UpProvide(v)
  \/ \E id \in Ids : UpRemove(id)
  \/ \E slot \in UpSlots : UpGet(slot)
  \/ UpReceive
  \/ \E r \in Reasons : UpSupplyOff(r)

----------------------------------------------------------------------------
(* IterativeContextSeeder *)

\* The provider functions that return: one that returns "a", one that returns null or
\* undefined, one that returns "c".
ReturningProviders == {"pa", "pn", "pc"}

\* A provider function that throws.
ThrowingProvider == "px"

Providers == ReturningProviders \cup {ThrowingProvider}

\* provider(context): what the call of a provider function does.
SourceOf(fn) ==
  CASE fn = "pa" -> "a"
    [] fn = "pn" -> Null
    [] fn = "pc" -> "c"
    [] OTHER -> Throw

\* The `initial` seed passed to seed(): AIterable.from(overNone()) when omitted.
InitialSeeds == {<<>>, <<"i1">>}

\* No error was thrown by an iteration.
NotThrown == "none"

\* The error a provider throws.
ThrownBy(fn) == fn

\* A SourceEntry that has nothing cached yet: [provider]. calls counts the invocations of
\* the provider made through this entry, up to 2.
SourceEntry(fn) == [fn |-> fn, cached |-> FALSE, src |-> Null, calls |-> 0]

\* providers.map(provider => [provider]): evaluated when iterativeSeed() is called, which
\* copies the providers registered at that moment.
iterativeSeed(providers) == [i \in Idx(providers) |-> SourceEntry(providers[i])]

NoSeed == [made |-> FALSE, initial |-> <<>>, atSeed |-> <<>>, entries |-> <<>>]

\* Mutant of seedEntries: the providers are mapped to entries when the seed is iterated,
\* not when it is made, so that the entries follow the providers array.
seedEntries_live(seed, providers) ==
  [i \in Idx(providers) |->
     IF i <= Len(seed.entries) /\ seed.entries[i].fn = providers[i]
       THEN seed.entries[i]
       ELSE SourceEntry(providers[i])]

\* overArray(entries): the array an iteration of the seed walks through is the array of
\* entries made by iterativeSeed(), whatever the providers array holds by now.
seedEntries(seed, providers) == seed.entries

\* Mutant of entrySource: what a provider throws is caught, and the source is absent.
entrySource_catch(entry) ==
  IF entry.cached
    THEN [entry |-> entry, source |-> entry.src, invoked |-> FALSE]
    ELSE LET source == IF SourceOf(entry.fn) = Throw THEN Null ELSE SourceOf(entry.fn)
         IN [entry |-> [entry EXCEPT !.calls = IF @ < 2 THEN @ + 1 ELSE @,
                                      !.cached = TRUE, !.src = source],
             source |-> source, invoked |-> TRUE]

\* Mutant of entrySource: the source is returned without being pushed to the entry.
entrySource_noCache(entry) ==
  IF entry.cached
    THEN [entry |-> entry, source |-> entry.src, invoked |-> FALSE]
    ELSE [entry |-> [entry EXCEPT !.calls = IF @ < 2 THEN @ + 1 ELSE @],
          source |-> SourceOf(entry.fn), invoked |-> TRUE]

\* The function given to .map(): if (entry.length > 1) return entry[1];
\* source = entry[0](context); entry.push(source); return source.
\* When the provider throws, nothing is pushed and the source is Throw.
entrySource(entry) ==
  IF entry.cached
    THEN [entry |-> entry, source |-> entry.src, invoked |-> FALSE]
    ELSE LET source == SourceOf(entry.fn)
             called == [entry EXCEPT !.calls = IF @ < 2 THEN @ + 1 ELSE @]
         IN IF source = Throw
              THEN [entry |-> called, source |-> Throw, invoked |-> TRUE]
              ELSE [entry |-> [called EXCEPT !.cached = TRUE, !.src = source],
                    source |-> source, invoked |-> TRUE]

\* Mutant of isPresent: every source passes the filter.
isPresent_all(source) == TRUE

\* isPresent(source): source != null
isPresent(source) == source # Null

\* One iteration over the mapped and filtered entries, from entry i on; with `first` it
\* stops at the first element it yields. Returns the entries after the iteration, the
\* elements yielded, the indices of the entries whose provider was invoked, and the error
\* thrown, which ends the iteration.
RECURSIVE iterate(_, _, _, _)
iterate(entries, i, first, acc) ==
  IF i > Len(entries)
    THEN [acc EXCEPT !.entries = entries]
    ELSE LET r == entrySource(entries[i])
             es == [entries EXCEPT ![i] = r.entry]
             inv == IF r.invoked THEN acc.invoked \cup {i} ELSE acc.invoked
         IN IF r.source = Throw
              THEN [entries |-> es, yielded |-> acc.yielded, invoked |-> inv,
                    error |-> ThrownBy(entries[i].fn)]
              ELSE IF isPresent(r.source)
                THEN LET a == [acc EXCEPT !.yielded = Append(@, r.source), !.invoked = inv]
                     IN IF first THEN [a EXCEPT !.entries = es]
                                 ELSE iterate(es, i + 1, first, a)
                ELSE iterate(es, i + 1, first, [acc EXCEPT !.invoked = inv])

\* The iteration has not started.
IterStart(entries) ==
  [entries |-> entries, yielded |-> <<>>, invoked |-> {}, error |-> NotThrown]

\* this._providers.indexOf(provider): the first index the provider is found at, 0 when
\* it is not found.
indexOf(providers, fn) ==
  IF \E i \in Idx(providers) : providers[i] = fn
    THEN CHOOSE i \in Idx(providers) :
           providers[i] = fn /\ \A j \in 1..(i - 1) : providers[j] # fn
    ELSE 0

\* this._providers.splice(found, 1)
splice(providers, found) ==
  [i \in 1..(Len(providers) - 1) |-> IF i < found THEN providers[i] ELSE providers[i + 1]]

ItLastOf(op, id, r, empty) ==
  [op |-> op, id |-> id, yielded |-> r.yielded, invoked |-> r.invoked, error |-> r.error,
   empty |-> empty]

ItNoResult(op, id) == ItLastOf(op, id, IterStart(<<>>), FALSE)

\* seeder.provide(provider)
ItProvide(fn) ==
  /\ Len(itRegs) < (IF itThrows THEN MaxThrowProvides ELSE MaxProvides)
  /\ fn = ThrowingProvider => itThrows
  /\ itProviders' = Append(itProviders, fn)
  /\ itRegs' = Append(itRegs, fn)
  /\ itLast' = ItNoResult("provide", Len(itRegs'))
  /\ UNCHANGED <<itRemoved, itThrows, itSeed>>
  /\ UNCHANGED <<sglVars, dynVars, upVars, cxVars, muVars>>

\* The remover returned by the id-th provide() call
ItRemove(id) ==
  /\ id \in Idx(itRegs)
  /\ LET found == indexOf(itProviders, itRegs[id])
     IN itProviders' = IF found >= 1 THEN splice(itProviders, found) ELSE itProviders
  /\ itRemoved' = itRemoved \cup {id}
  /\ itLast' = ItNoResult("remove", id)
  /\ UNCHANGED <<itRegs, itThrows, itSeed>>
  /\ UNCHANGED <<sglVars, dynVars, upVars, cxVars, muVars>>

\* seeder.seed(context, initial)
ItSeed(initial) ==
  /\ ~itSeed.made
  /\ itSeed' = [made |-> TRUE, initial |-> initial, atSeed |-> itProviders,
                entries |-> iterativeSeed(itProviders)]
  /\ itLast' = ItNoResult("seed", 0)
  /\ UNCHANGED <<itProviders, itRegs, itRemoved, itThrows>>
  /\ UNCHANGED <<sglVars, dynVars, upVars, cxVars, muVars>>

\* for (const source of seed): the elements of the initial seed, then the sources
ItIterate ==
  /\ itSeed.made
  /\ LET es == seedEntries(itSeed, itProviders)
         r == iterate(es, 1, FALSE, IterStart(es))
     IN /\ itSeed' = [itSeed EXCEPT !.entries = r.entries]
        /\ itLast' = ItLastOf("iterate", 0, [r EXCEPT !.yielded = itSeed.initial \o @], FALSE)
  /\ UNCHANGED <<itProviders, itRegs, itRemoved, itThrows>>
  /\ UNCHANGED <<sglVars, dynVars, upVars, cxVars, muVars>>

\* seeder.isEmpty(seed): itsEmpty(seed) asks the iteration for its first element only
ItIsEmpty ==
  /\ itSeed.made
  /\ LET es == seedEntries(itSeed, itProviders)
         r == IF itSeed.initial # <<>>
                THEN [IterStart(es) EXCEPT !.yielded = <<itSeed.initial[1]>>]
                ELSE iterate(es, 1, TRUE, IterStart(es))
     IN /\ itSeed' = [itSeed EXCEPT !.entries = r.entries]
        /\ itLast' = ItLastOf("isEmpty", 0, r, r.error = NotThrown /\ r.yielded = <<>>)
  /\ UNCHANGED <<itProviders, itRegs, itRemoved, itThrows>>
  /\ UNCHANGED <<sglVars, dynVars, upVars, cxVars, muVars>>

ItInit ==
  /\ itProviders = <<>>
  /\ itRegs = <<>>
  /\ itRemoved = {}
  /\ itThrows = FALSE
  /\ itSeed = NoSeed
  /\ itLast = ItNoResult("init", 0)

\* The seeder in a run where providers may throw
ItThrowInit ==
  /\ itProviders = <<>>
  /\ itRegs = <<>>
  /\ itRemoved = {}
  /\ itThrows = TRUE
  /\ itSeed = NoSeed
  /\ itLast = ItNoResult("init", 0)

\* The variables of the seeder while another specification runs
ItIdle == ItInit

ItNext ==
  \/ \E fn \in Providers : ItProvide(fn)
  \/ \E id \in Ids : ItRemove(id)
  \/ \E initial \in InitialSeeds : ItSeed(initial)
  \/ ItIterate
  \/ ItIsEmpty

----------------------------------------------------------------------------
(* CxEntry.perContext: the definition of an entry in a context *)

\* The entries requested in the contexts.
CxEntries == {"e1", "e2"}

\* The record a context keeps of an entry: no definition yet.
NoDefinition == [phase |-> "none", perContextCalls |-> 0, gets |-> 0]

\* Mutant of define: only a finished definition keeps perContext from being invoked.
define_unguarded(record) ==
  IF record.phase = "defined"
    THEN record
    ELSE [record EXCEPT !.phase = "defining",
                        !.perContextCalls = IF @ < 2 THEN @ + 1 ELSE @]

\* The definition of the entry is started unless it was started before: materialize at
\* most once, then memoize.
define(record) ==
  IF record.phase = "none"
    THEN [record EXCEPT !.phase = "defining", !.perContextCalls = @ + 1]
    ELSE record

\* context.get(entry) in context s, called from outside or from the perContext() that is
\* in progress: starts the definition, which is in progress until CxDefined.
CxGet(e, s) ==
  /\ cxRecords[e][s].gets < MaxGets
  /\ LET record == define(cxRecords[e][s])
     IN /\ cxRecords' = [cxRecords EXCEPT ![e][s] = [record EXCEPT !.gets = @ + 1]]
        /\ cxStack' = IF record.perContextCalls > cxRecords[e][s].perContextCalls
                        THEN Append(cxStack, <<e, s>>)
                        ELSE cxStack
        /\ cxLast' = [op |-> "get", entry |-> e, scope |-> s,
                      reentrant |-> \E i \in Idx(cxStack) : cxStack[i] = <<e, s>>]
  /\ UNCHANGED <<sglVars, dynVars, upVars, itVars, muVars>>

\* The innermost perContext() call in progress returns the definition.
CxDefined ==
  /\ cxStack # <<>>
  /\ LET top == cxStack[Len(cxStack)]
     IN /\ cxRecords' = [cxRecords EXCEPT ![top[1]][top[2]].phase = "defined"]
        /\ cxLast' = [op |-> "defined", entry |-> top[1], scope |-> top[2],
                      reentrant |-> FALSE]
  /\ cxStack' = SubSeq(cxStack, 1, Len(cxStack) - 1)
  /\ UNCHANGED <<sglVars, dynVars, upVars, itVars, muVars>>

CxInit ==
  /\ cxRecords = [e \in CxEntries |-> [s \in Scopes |-> NoDefinition]]
  /\ cxStack = <<>>
  /\ cxLast = [op |-> "init", entry |-> Null, scope |-> 0, reentrant |-> FALSE]

\* The records of the contexts while another specification runs
CxIdle == CxInit

CxNext ==
  \/ \E e \in CxEntries, s \in Scopes : CxGet(e, s)
  \/ CxDefined

----------------------------------------------------------------------------
(* ContextModuleUsage *)

\* this.module: the module the usage is created for.
Self == "self"

\* A module other than this.module that implements it.
ImplModule == "impl"

\* The reason a user cuts its supply off with.
UserReason == "R1"

\* The error a module load fails with.
LoadError == "E1"

\* neverSupply(): the supply that is cut off from the start.
NeverSupply == 0

\* The supplies of revisions: neverSupply() and one for every load and every release.
MuSupplies == 0..MaxCalls

\* The supplies users pass to use() that are not cut off.
Users == 1..MaxCalls

\* A user whose supply is cut off before it is passed to use().
CutUser == 0

\* The supplies a use() call can be given: one in use, a new one, or one cut off.
MuUsable ==
  {CutUser} \cup {u \in Users : muUsers[u] > 0 \/ \A v \in Users : muUsers[v] = 0 => u <= v}

\* ContextModule.Status
MuStatus(module, provided, used, settled, ready, error) ==
  [module |-> module, provided |-> provided, used |-> used, settled |-> settled,
   ready |-> ready, error |-> error]

\* ContextModuleRev
MuRev(status, supply) == [status |-> status, supply |-> supply]

\* No _setup() is in progress for a revision.
MuNoTask == [kind |-> "none", stage |-> "none", module |-> Null, provided |-> FALSE]

\* What the handle of the implementation module reports: its settled, ready and error.
ImplStatuses ==
  {[settled |-> FALSE, ready |-> FALSE, error |-> Null],
   [settled |-> TRUE, ready |-> TRUE, error |-> Null],
   [settled |-> FALSE, ready |-> FALSE, error |-> LoadError]}

MuEvent(e, supply, status, reason) ==
  [e |-> e, supply |-> supply, status |-> status, reason |-> reason]

\* this._rev.it = rev: the revision is published to the readers of the status.
usage_publish(m, rev) ==
  [m EXCEPT !.rev = rev,
            !.log = Append(@, MuEvent("publish", rev.supply, rev.status, Null))]

\* Mutant of needs: what the module provides does not depend on the revision's supply.
needs_nothing(m, s) == m

\* registry.provide(spec).needs(supply): the asset provided for the revision of supply s
\* is revoked when s is cut off.
needs(m, s) ==
  [m EXCEPT !.assets[s] = IF @ = "provided" THEN "revoked" ELSE @]

\* The whenOff callback of the supply _load() creates: resets the status when the supply
\* is that of the current revision.
whenLoadedOff(m, s, reason) ==
  IF m.rev.supply = s
    THEN usage_publish(m, MuRev([m.rev.status EXCEPT !.provided = FALSE, !.settled = FALSE,
                                                    !.ready = FALSE, !.error = reason], s))
    ELSE m

\* supply.off(reason) of the supply of a revision: nothing when it is cut off already;
\* else the whenOff callback runs, the receiver of the implementation's status, which
\* was registered with this supply, is cut off, and so is what depends on the supply.
Supply_off(m, s, reason) ==
  IF m.supplies[s] # "on"
    THEN m
    ELSE LET cut == [m EXCEPT !.supplies[s] = reason,
                              !.log = Append(@, MuEvent("cut", s, m.rev.status, reason)),
                              !.tasks[s] = IF @.kind = "impl" THEN MuNoTask ELSE @]
         IN needs(whenLoadedOff(cut, s, reason), s)

\* Mutant of usage_updateStatus: the result is published without the revision test.
usage_updateStatus_unchecked(m, s, settled, ready, error) ==
  usage_publish(m, MuRev(MuStatus(m.tasks[s].module, m.tasks[s].provided, TRUE,
                                  settled, ready, error), s))

\* _updateStatus(rev, settled, ready, error) for the revision of supply s that _setup()
\* captured.
usage_updateStatus(m, s, settled, ready, error) ==
  IF m.rev.supply # s
    THEN Supply_off(m, s, Null)
    ELSE usage_publish(m, MuRev(MuStatus(m.tasks[s].module, m.tasks[s].provided, TRUE,
                                         settled, ready, error), s))

\* this._setup(): captures the current revision; for this.module the load is started
\* (loader.loadModule is called), for an implementation module that module is used and
\* its status is read, the current one (first) at once.
usage_setup(m, first) ==
  LET rev == m.rev
      s == rev.supply
      started == [m EXCEPT !.log = Append(@, MuEvent("setup", s, rev.status, Null))]
  IN IF rev.status.module = Self
       THEN [started EXCEPT !.tasks[s] = [kind |-> "load", stage |-> "loading",
                                          module |-> rev.status.module,
                                          provided |-> rev.status.provided]]
       ELSE IF m.supplies[s] # "on"
         THEN started
         ELSE usage_updateStatus(
                [started EXCEPT !.tasks[s] = [kind |-> "impl", stage |-> "listening",
                                              module |-> rev.status.module,
                                              provided |-> rev.status.provided]],
                s, first.settled, first.ready, first.error)

\* A supply that was not created yet
MuFresh(m) ==
  CHOOSE s \in MuSupplies :
    /\ m.supplies[s] = "unborn"
    /\ \A t \in MuSupplies : m.supplies[t] = "unborn" => s <= t

\* _load(module)
usage_load(m, module, first) ==
  LET s == MuFresh(m)
      used == m.counter > 0
      made == [m EXCEPT !.supplies[s] = "on"]
      loaded == usage_publish(made, MuRev(MuStatus(module, TRUE, used, FALSE, FALSE, Null), s))
  IN IF used THEN usage_setup(loaded, first) ELSE loaded

\* Mutant of usage_implRead: the previous supply is cut off before the module is loaded.
usage_implRead_cutFirst(m, module, first) ==
  LET cut == Supply_off(m, m.rev.supply, Null)
  IN IF module # Null THEN usage_load(cut, module, first) ELSE cut

\* The receiver of this._impl.read in the constructor: loads the module delivered, then
\* cuts off the supply the revision had before.
usage_implRead(m, module, first) ==
  LET prevSupply == m.rev.supply
      loaded == IF module # Null THEN usage_load(m, module, first) ELSE m
  IN Supply_off(loaded, prevSupply, Null)

\* Mutant of usage_use: every use() sets the module up.
usage_use_alwaysSetup(m, isOff, first) ==
  IF isOff
    THEN m
    ELSE usage_setup(usage_publish([m EXCEPT !.counter = @ + 1],
                                   MuRev([m.rev.status EXCEPT !.used = TRUE], m.rev.supply)),
                     first)

\* _use(handle, user), given whether the supply of the user is cut off
usage_use(m, isOff, first) ==
  IF isOff
    THEN m
    ELSE IF m.counter = 0
      THEN usage_setup(usage_publish([m EXCEPT !.counter = @ + 1],
                                     MuRev([m.rev.status EXCEPT !.used = TRUE], m.rev.supply)),
                       first)
      ELSE [m EXCEPT !.counter = @ + 1]

\* Mutant of usage_whenUseOff: the revision is cut off without the reason.
usage_whenUseOff_noReason(m, reason) ==
  IF m.counter = 1
    THEN LET rev == m.rev
             s == MuFresh(m)
             released == usage_publish(
                           [m EXCEPT !.counter = 0, !.supplies[s] = reason],
                           MuRev([rev.status EXCEPT !.used = FALSE, !.settled = FALSE,
                                                    !.ready = FALSE, !.error = reason], s))
         IN Supply_off(released, rev.supply, Null)
    ELSE [m EXCEPT !.counter = @ - 1]

\* The whenOff callback _use() registers on the supply of the use
usage_whenUseOff(m, reason) ==
  IF m.counter = 1
    THEN LET rev == m.rev
             s == MuFresh(m)
             released == usage_publish(
                           [m EXCEPT !.counter = 0, !.supplies[s] = reason],
                           MuRev([rev.status EXCEPT !.used = FALSE, !.settled = FALSE,
                                                    !.ready = FALSE, !.error = reason], s))
         IN Supply_off(released, rev.supply, reason)
    ELSE [m EXCEPT !.counter = @ - 1]

\* The callbacks registered on a supply of a user run one after the other.
RECURSIVE MuRunUseOff(_, _, _)
MuRunUseOff(m, regs, reason) ==
  IF regs = 0 THEN m ELSE MuRunUseOff(usage_whenUseOff(m, reason), regs - 1, reason)

\* The usage at the start of an operation: nothing is logged yet.
MuStart == [mu EXCEPT !.log = <<>>]

MuLastOf(op, supply, reason) == [op |-> op, supply |-> supply, reason |-> reason]

\* The keeper given to implementBy() delivers a module, or none: the _impl tracker
\* reports the change.
MuImplementBy(module, first) ==
  /\ muCalls < MaxCalls
  /\ module # muImpl
  /\ muImpl' = module
  /\ mu' = usage_implRead(MuStart, module, first)
  /\ muCalls' = muCalls + 1
  /\ muLast' = MuLastOf("implementBy", mu.rev.supply, Null)
  /\ UNCHANGED muUsers
  /\ UNCHANGED <<sglVars, dynVars, upVars, itVars, cxVars>>

\* handle.use(user) with the supply u of the user
MuUse(u, first) ==
  /\ muCalls < MaxCalls
  /\ u \in MuUsable
  /\ mu' = usage_use(MuStart, u = CutUser, first)
  /\ muUsers' = IF u = CutUser THEN muUsers ELSE [muUsers EXCEPT ![u] = @ + 1]
  /\ muCalls' = muCalls + 1
  /\ muLast' = MuLastOf("use", mu.rev.supply, Null)
  /\ UNCHANGED muImpl
  /\ UNCHANGED <<sglVars, dynVars, upVars, itVars, cxVars>>

\* The supply u of a user, passed to use() before, is cut off with a reason
MuUserOff(u, reason) ==
  /\ muUsers[u] > 0
  /\ muUsers' = [muUsers EXCEPT ![u] = 0]
  /\ mu' = MuRunUseOff(MuStart, muUsers[u], reason)
  /\ muLast' = MuLastOf("userOff", mu.rev.supply, reason)
  /\ UNCHANGED <<muImpl, muCalls>>
  /\ UNCHANGED <<sglVars, dynVars, upVars, itVars, cxVars>>

\* loadContextModule() resolves for the revision of supply s: the module is settled
MuLoaded(s) ==
  /\ mu.tasks[s].kind = "load"
  /\ mu.tasks[s].stage = "loading"
  /\ mu' = [usage_updateStatus(MuStart, s, TRUE, FALSE, Null)
              EXCEPT !.tasks[s].stage = "settled"]
  /\ muLast' = MuLastOf("loaded", s, Null)
  /\ UNCHANGED <<muImpl, muUsers, muCalls>>
  /\ UNCHANGED <<sglVars, dynVars, upVars, itVars, cxVars>>

\* whenReady resolves for the revision of supply s: the module is ready
MuReady(s) ==
  /\ mu.tasks[s].kind = "load"
  /\ mu.tasks[s].stage = "settled"
  /\ mu' = [usage_updateStatus(MuStart, s, TRUE, TRUE, Null) EXCEPT !.tasks[s] = MuNoTask]
  /\ muLast' = MuLastOf("ready", s, Null)
  /\ UNCHANGED <<muImpl, muUsers, muCalls>>
  /\ UNCHANGED <<sglVars, dynVars, upVars, itVars, cxVars>>

\* loadContextModule() or whenReady rejects: .catch(error => rev.supply.off(error))
MuFailed(s) ==
  /\ mu.tasks[s].kind = "load"
  /\ mu' = [Supply_off(MuStart, s, LoadError) EXCEPT !.tasks[s] = MuNoTask]
  /\ muLast' = MuLastOf("failed", s, LoadError)
  /\ UNCHANGED <<muImpl, muUsers, muCalls>>
  /\ UNCHANGED <<sglVars, dynVars, upVars, itVars, cxVars>>

\* The implementation module reports a status to the receiver of the revision of supply s
MuReceive(s, st) ==
  /\ mu.tasks[s].kind = "impl"
  /\ mu' = usage_updateStatus(MuStart, s, st.settled, st.ready, st.error)
  /\ muLast' = MuLastOf("receive", s, st.error)
  /\ UNCHANGED <<muImpl, muUsers, muCalls>>
  /\ UNCHANGED <<sglVars, dynVars, upVars, itVars, cxVars>>

\* The module being loaded for the revision of supply s calls setup.provide(spec)
MuProvide(s) ==
  /\ mu.tasks[s].kind = "load"
  /\ mu.tasks[s].stage = "loading"
  /\ mu.assets[s] = "none"
  /\ mu' = LET provided == [MuStart EXCEPT !.assets[s] = "provided"]
           IN IF mu.supplies[s] = "on" THEN provided ELSE needs(provided, s)
  /\ muLast' = MuLastOf("provide", s, Null)
  /\ UNCHANGED <<muImpl, muUsers, muCalls>>
  /\ UNCHANGED <<sglVars, dynVars, upVars, itVars, cxVars>>

\* The usage as the constructor and setup() leave it
MuInit ==
  /\ mu = [rev |-> MuRev(MuStatus(Self, FALSE, FALSE, FALSE, FALSE, Null), NeverSupply),
           counter |-> 0,
           supplies |-> [s \in MuSupplies |-> IF s = NeverSupply THEN Null ELSE "unborn"],
           tasks |-> [s \in MuSupplies |-> MuNoTask],
           assets |-> [s \in MuSupplies |-> "none"],
           log |-> <<>>]
  /\ muImpl = Null
  /\ muUsers = [u \in Users |-> 0]
  /\ muCalls = 0
  /\ muLast = MuLastOf("init", NeverSupply, Null)

\* The usage while another specification runs
MuIdle == MuInit

MuNext ==
  \/ \E module \in {Null, Self, ImplModule}, first \in ImplStatuses :
       MuImplementBy(module, first)
  \/ \E u \in Users \cup {CutUser}, first \in ImplStatuses : MuUse(u, first)
  \/ \E u \in Users : MuUserOff(u, UserReason)
  \/ \E s \in MuSupplies : MuLoaded(s)
  \/ \E s \in MuSupplies : MuReady(s)
  \/ \E s \in MuSupplies : MuFailed(s)
  \/ \E s \in MuSupplies, st \in ImplStatuses : MuReceive(s, st)
  \/ \E s \in MuSupplies : MuProvide(s)

----------------------------------------------------------------------------
(* Specifications *)

SingleInit == SglInit /\ DynIdle /\ UpIdle /\ ItIdle /\ CxIdle /\ MuIdle

SpecSingle == SingleInit /\ [][SglNext]_vars

DynamicInit == DynInit /\ SglIdle /\ UpIdle /\ ItIdle /\ CxIdle /\ MuIdle

SpecDynamic == DynamicInit /\ [][DynNext]_vars

UpKeyInit == UpInit /\ SglIdle /\ DynIdle /\ ItIdle /\ CxIdle /\ MuIdle

SpecUpKey == UpKeyInit /\ [][UpNext]_vars

IterInit == ItInit /\ SglIdle /\ DynIdle /\ UpIdle /\ CxIdle /\ MuIdle

SpecIter == IterInit /\ [][ItNext]_vars

DefineInit == CxInit /\ SglIdle /\ DynIdle /\ UpIdle /\ ItIdle /\ MuIdle

SpecDefine == DefineInit /\ [][CxNext]_vars

UsageInit == MuInit /\ SglIdle /\ DynIdle /\ UpIdle /\ ItIdle /\ CxIdle

SpecUsage == UsageInit /\ [][MuNext]_vars

ThrowInit ==
  \/ SglThrowInit /\ DynIdle /\ UpIdle /\ ItIdle /\ CxIdle /\ MuIdle
  \/ ItThrowInit /\ SglIdle /\ DynIdle /\ UpIdle /\ CxIdle /\ MuIdle

ThrowNext ==
  \/ sglThrows /\ SglNext
  \/ itThrows /\ ItNext

SpecThrow == ThrowInit /\ [][ThrowNext]_vars

----------------------------------------------------------------------------
(* Properties of cxSingle *)

\* The provided assets all evaluate to non-null
SglAllPresent == \A i \in Idx(sglAssets) : sglAssets[i].val # Null

\* The evaluation of the most recently registered asset among those that evaluate to
\* non-null; Null when there is none.
SglMostRecentPresent ==
  IF \E i \in Idx(sglAssets) : sglAssets[i].val # Null
    THEN sglAssets[CHOOSE i \in Idx(sglAssets) :
                     /\ sglAssets[i].val # Null
                     /\ \A j \in Idx(sglAssets) : j > i => sglAssets[j].val = Null].val
    ELSE Null

\* C2 as stated: a scope resolved the entry while the third asset (v3) was registered;
\* after v3's token is revoked, the entry resolves there to the last of the remaining
\* assets (v2, and v1 after v2 is revoked too).
C2_LastWinsAfterRevocation ==
  (/\ sglLast.op = "get"
   /\ sglEvals[sglLast.scope][3] = 1
   /\ 3 \notin IdsOf(sglAssets)
   /\ sglAssets # <<>>
   /\ SglAllPresent)
    => sglLast.value = sglAssets[Len(sglAssets)].val

\* C2 amended: a scope that resolves the entry for the first time gets the value of the
\* last asset registered at that moment (v3; v2 once v3 is revoked; v1 once v2 is revoked
\* too), while a scope that has already resolved the entry keeps the value it resolved.
C2_LastWinsOnFirstGet ==
  sglLast.op = "get" =>
    IF sglLast.fresh
      THEN (sglAssets # <<>> /\ SglAllPresent)
             => sglLast.value = sglAssets[Len(sglAssets)].val
      ELSE sglLast.value = sglGetMemo[sglLast.scope].value

\* v1, v2, v3 were registered in that order and v3 was revoked; a scope that had not
\* resolved the entry before has just resolved it to v2.
C2_Witness ==
  /\ sglNextId = 4
  /\ sglAssets = <<[id |-> 1, val |-> ValueOf(1)], [id |-> 2, val |-> ValueOf(2)]>>
  /\ sglLast = [op |-> "get", scope |-> 1, value |-> ValueOf(2), fresh |-> TRUE]

C5_MostRecentPresentOrNull ==
  (sglLast.op = "get" /\ sglLast.fresh) => sglLast.value = SglMostRecentPresent

\* get() skipped a newer asset evaluating to null and returned an older one.
C5_Witness ==
  /\ sglLast.op = "get"
  /\ sglLast.fresh
  /\ sglLast.value # Null
  /\ Len(sglAssets) >= 2
  /\ sglAssets[Len(sglAssets)].val = Null

----------------------------------------------------------------------------
(* Properties of cxDynamic *)

\* The assets currently provided, in delivery order
DynCurrent == CollectAssets(dynAssets)

\* The entry has a default: byDefault is given or create is omitted.
DynHasDefault == dynOpts.byDefault \/ ~dynOpts.create

\* The state is one built by create (the option or the built-in one) from the given assets
DynBuiltFrom(state, assets) == state.by \in {"create", "array"} /\ state.assets = assets

\* The state is the default one
DynIsDefaultState(state) ==
  /\ state.assets = <<>>
  /\ state.by = IF dynOpts.byDefault THEN "byDefault" ELSE "array"

\* C6 as stated: while a definition tracks the assets, every change of the asset list -
\* addition or revocation - invokes create with the full current list.
C6_CreateOnEveryChange ==
  [][\A s \in DynScopes :
       (Tracking(dyn[s]) /\ CollectAssets(dynAssets') # CollectAssets(dynAssets))
         => (dyn'[s].created /\ dyn'[s].state.assets = CollectAssets(dynAssets'))]_vars

\* C6 amended: while a definition tracks the assets, every change of the asset list that
\* leaves at least one asset invokes create with the full current list of assets; a change
\* that leaves no asset does not invoke create and switches to the default state.
C6_CreateOnChangeToNonEmpty ==
  [][\A s \in DynScopes :
       (Tracking(dyn[s]) /\ CollectAssets(dynAssets') # CollectAssets(dynAssets))
         => IF CollectAssets(dynAssets') # <<>>
              THEN dyn'[s].created /\ DynBuiltFrom(dyn'[s].state, CollectAssets(dynAssets'))
              ELSE ~dyn'[s].created /\ dyn'[s].state = DefaultGetter]_vars

\* A revocation under tracking has just re-invoked create with the remaining assets.
C6_Witness ==
  /\ dynLast.op = "revoke"
  /\ \E s \in DynScopes :
       /\ dyn[s].created
       /\ dyn[s].updated
       /\ dyn[s].state.assets # <<>>
       /\ dyn[s].state.assets = DynCurrent

\* C7: an assign() that succeeds yields the value of the asset list as it is now: the
\* state built from all current assets when there are some, the default state when there
\* are none and the entry has a default, no value otherwise.
C7_AssignSeesCurrentList ==
  (dynLast.op = "assign" /\ dynLast.error = NoError) =>
     IF DynCurrent # <<>>
       THEN dynLast.called /\ DynBuiltFrom(dynLast.value, DynCurrent)
       ELSE IF DynHasDefault
              THEN dynLast.called /\ DynIsDefaultState(dynLast.value)
              ELSE ~dynLast.called

\* assign() in a scope that tracked the list through changes, one of them a revocation:
\* the value is built from the assets that remain.
C7_Witness ==
  /\ dynLast.op = "assign"
  /\ dynLast.called
  /\ dyn[dynLast.scope].updated
  /\ ~dyn[dynLast.scope].created
  /\ Len(dynAssets) < dynNextId - 1
  /\ DynCurrent # <<>>
  /\ dynLast.value.assets = DynCurrent

\* C8: once the supply of the scope is cut off with reason R, assign() and
\* assignDefault() do not call the assigner and fail with a CxReferenceError of the entry
\* with reason R.
C8_FailsAfterCutOff ==
  (dynLast.op \in {"assign", "assignDefault"} /\ dyn[dynLast.scope].supply # "on") =>
     /\ ~dynLast.called
     /\ dynLast.error.type = "CxReferenceError"
     /\ dynLast.error.entry = DynEntry
     /\ dynLast.error.reason = dyn[dynLast.scope].supply

\* assign() fails with reason R2 in a scope that had passed Assets and followed a change
\* of the list before it was cut off; an asset is provided now.
C8_Witness ==
  /\ dynLast.op = "assign"
  /\ dynLast.error.reason = "R2"
  /\ dyn[dynLast.scope].method = "Assets"
  /\ dyn[dynLast.scope].updated
  /\ DynCurrent # <<>>

\* C9: byDefault is evaluated at most once per scope, and every value taken from the
\* default state is the one it returned then.
C9_ByDefaultOnce ==
  /\ \A s \in DynScopes : dyn[s].byDefaultCalls <= 1
  /\ (/\ dynOpts.byDefault
      /\ dynLast.called
      /\ (dynLast.op = "assignDefault" \/ dynLast.method = "Defaults"))
       => /\ dyn[dynLast.scope].byDefaultCalls = 1
          /\ dyn[dynLast.scope].defMemo.done
          /\ dynLast.value = dyn[dynLast.scope].defMemo.value

\* The list has become empty again under tracking, after assignDefault() had evaluated
\* byDefault, and assign() uses the default state.
C9_Witness ==
  /\ dynOpts.byDefault
  /\ dynLast.op = "assign"
  /\ dynLast.method = "Defaults"
  /\ dyn[dynLast.scope].updated
  /\ dyn[dynLast.scope].byDefaultCalls = 1
  /\ dynNextId > 2
  /\ dynAssets = <<>>

\* C10: an assign() that succeeds passes Assets exactly when there is at least one
\* current asset, and Defaults exactly when there is none and the value passed is the
\* default state.
C10_MethodSignal ==
  (dynLast.op = "assign" /\ dynLast.error = NoError) =>
     /\ (dynLast.method = "Assets") <=> (DynCurrent # <<>>)
     /\ (dynLast.method = "Defaults")
          <=> (DynCurrent = <<>> /\ dynLast.called /\ DynIsDefaultState(dynLast.value))
     /\ dynLast.called <=> (dynLast.method # "none")
     /\ (DynCurrent = <<>> /\ DynHasDefault) => dynLast.called

\* assign() passes Defaults although providers are registered: none of them provides an
\* asset; the scope passed Assets before.
C10_Witness ==
  /\ dynLast.op = "assign"
  /\ dynLast.method = "Defaults"
  /\ dynAssets # <<>>
  /\ dyn[dynLast.scope].updated

\* cxDynamic() is called without options: neither create nor byDefault (nor access).
DynNoOptions == dynOpts = [create |-> FALSE, byDefault |-> FALSE]

\* The array of the given elements, as cxDynamic$create and cxDynamic$byDefault return it
DynArray(elements) == [by |-> "array", assets |-> elements]

\* C11: without options, while the supply of the scope is on, assign() never fails and
\* passes the array of all currently provided assets in delivery order - the empty array
\* when there are none; assignDefault() never fails either and passes the empty array
\* when there are none.
C11_CollectAll ==
  (/\ DynNoOptions
   /\ dynLast.op \in {"assign", "assignDefault"}
   /\ dyn[dynLast.scope].supply = "on")
    => /\ dynLast.error = NoError
       /\ dynLast.called
       /\ dynLast.op = "assign" => dynLast.value = DynArray(DynCurrent)
       /\ (dynLast.op = "assignDefault" /\ DynCurrent = <<>>) => dynLast.value = DynArray(<<>>)

\* Without options, all the assets were revoked under tracking, and assign() passes the
\* empty array.
C11_Witness ==
  /\ DynNoOptions
  /\ dynLast.op = "assign"
  /\ dynLast.called
  /\ dyn[dynLast.scope].updated
  /\ dynNextId > 2
  /\ dynAssets = <<>>
  /\ dynLast.value = DynArray(<<>>)

\* The supply of the scope of the last operation is on
DynLastLive == dynLast.scope \in DynScopes /\ dyn[dynLast.scope].supply = "on"

\* C21: the tracking of the asset list is not started when the definition is created; it
\* is started by the first assign() or assignDefault() of the scope and by nothing else,
\* and once started it is not started again: a later assign() or assignDefault() leaves
\* the subscription and the state built by it as they are.
C21_TrackingStartedOnce ==
  /\ [](dynLast.op = "define" => dyn[dynLast.scope].getAssign # "ready")
  /\ [][\A s \in DynScopes :
          /\ (dyn[s].getAssign = "lazy" /\ dyn'[s].getAssign = "ready")
               => (dynLast'.op \in {"assign", "assignDefault"} /\ dynLast'.scope = s)
          /\ (/\ dyn[s].getAssign = "lazy"
              /\ dynLast'.op \in {"assign", "assignDefault"}
              /\ dynLast'.scope = s)
               => dyn'[s].getAssign = "ready"
          /\ dyn[s].getAssign # "lazy" => dyn'[s].getAssign # "lazy"
          /\ (/\ dyn[s].getAssign = "ready"
              /\ dynLast'.op \in {"assign", "assignDefault"})
               => /\ dyn'[s].getAssign = "ready"
                  /\ ~dyn'[s].created
                  /\ dyn'[s].state = dyn[s].state
                  /\ dyn'[s].method = dyn[s].method]_vars

\* A second assignDefault() in a scope that tracks two assets: nothing was built anew.
C21_Witness ==
  /\ dynLast.op = "assignDefault"
  /\ dynLast.called
  /\ dyn[dynLast.scope].getAssign = "ready"
  /\ ~dyn[dynLast.scope].created
  /\ Len(dyn[dynLast.scope].state.assets) = 2

\* cxDynamic() is called with create and without byDefault.
DynCreateOnly == dynOpts = [create |-> TRUE, byDefault |-> FALSE]

\* C22: with create and without byDefault, while the supply of the scope is on, assign()
\* calls the assigner exactly when at least one asset is currently provided,
\* assignDefault() never calls it, and neither of them fails.
C22_NoDefaultNoValue ==
  (DynCreateOnly /\ dynLast.op \in {"assign", "assignDefault"} /\ DynLastLive)
    => /\ dynLast.error = NoError
       /\ dynLast.op = "assign" => (dynLast.called <=> DynCurrent # <<>>)
       /\ dynLast.op = "assignDefault" => ~dynLast.called

\* With create only, all the assets were revoked under tracking and assign() has called
\* no assigner and raised nothing.
C22_Witness ==
  /\ DynCreateOnly
  /\ dynLast.op = "assign"
  /\ ~dynLast.called
  /\ dynLast.error = NoError
  /\ dyn[dynLast.scope].updated
  /\ dynNextId > 2
  /\ DynCurrent = <<>>

\* C23: when the entry has a default, while the supply of the scope is on, assign() and
\* assignDefault() call the assigner and do not fail, and assignDefault() passes the
\* default state whatever assets are provided.
C23_DefaultAlwaysAssigned ==
  (DynHasDefault /\ dynLast.op \in {"assign", "assignDefault"} /\ DynLastLive)
    => /\ dynLast.error = NoError
       /\ dynLast.called
       /\ dynLast.op = "assignDefault" => DynIsDefaultState(dynLast.value)

\* assignDefault() passes the default created by byDefault while two assets are provided
\* and tracked, after a change of the list.
C23_Witness ==
  /\ dynOpts.byDefault
  /\ dynLast.op = "assignDefault"
  /\ dynLast.called
  /\ dynLast.value.by = "byDefault"
  /\ dyn[dynLast.scope].updated
  /\ Len(DynCurrent) = 2

\* C24: create is invoked only when the list of assets is reported - by a change of the
\* list under tracking, or by the first assign() or assignDefault(), which starts the
\* tracking - and only with a non-empty array, that of the current assets.
C24_CreateOnNotificationOnly ==
  [][\A s \in DynScopes :
       dyn'[s].created
         => /\ CollectAssets(dynAssets') # <<>>
            /\ DynBuiltFrom(dyn'[s].state, CollectAssets(dynAssets'))
            /\ \/ dynLast'.op \in {"provide", "revoke"} /\ Tracking(dyn[s])
               \/ /\ dynLast'.op \in {"assign", "assignDefault"}
                  /\ dynLast'.scope = s
                  /\ dyn[s].getAssign = "lazy"]_vars

\* assign() passes the state that the create option built from two assets at the last
\* change of the list; create was not invoked by the call.
C24_Witness ==
  /\ dynOpts.create
  /\ dynLast.op = "assign"
  /\ dynLast.called
  /\ dynLast.value.by = "create"
  /\ Len(dynLast.value.assets) = 2
  /\ dyn[dynLast.scope].updated
  /\ ~dyn[dynLast.scope].created

----------------------------------------------------------------------------
(* Properties of SingleContextUpKey *)

\* The sources currently provided for the key, in registration order
UpCurrent == UpSources(upProviders)

\* The request carried a non-null fallback
UpFallbackGiven == upSlot.hasFallback /\ upSlot.or # Null

\* C1: with at least one source the value is the last source, whatever the fallback and
\* the default; without sources a non-null fallback is the value, whatever the default;
\* the default is the value only without a source and without a fallback - and it is
\* then, if the key has one; with no source, no fallback and no default the value is the
\* ContextKeyError.
C1_Precedence ==
  upSlot.grown =>
    /\ UpCurrent # <<>>
         => upValue = [kind |-> "keeper", val |-> UpCurrent[Len(UpCurrent)]]
    /\ (UpCurrent = <<>> /\ UpFallbackGiven)
         => upValue = [kind |-> "keeper", val |-> FallbackValue]
    /\ upValue.val = DefaultValue
         => (UpCurrent = <<>> /\ ~upSlot.hasFallback /\ upValue.kind = "keeper")
    /\ (UpCurrent = <<>> /\ ~upSlot.hasFallback /\ upByDefault = DefaultValue)
         => upValue = [kind |-> "keeper", val |-> DefaultValue]
    /\ (UpCurrent = <<>> /\ ~UpFallbackGiven /\ upByDefault = Null)
         => upValue.kind = "ContextKeyError"

\* The key has a default and the request a fallback; the only source was removed, and
\* the receiver that had received the source received the fallback.
C1_Witness ==
  /\ upByDefault = DefaultValue
  /\ UpFallbackGiven
  /\ upLast = "remove"
  /\ upProviders = <<>>
  /\ upReceiver.active
  /\ upReceiver.prev = [kind |-> "keeper", val |-> ValueOf(1)]
  /\ upReceiver.got = [kind |-> "keeper", val |-> FallbackValue]

\* C4: while sources are provided, the value the receiver has is the last of the
\* currently provided non-null sources - after a removal of the most recent provider the
\* previous one, in the same context.
C4_ReceiverHasLastSource ==
  (upReceiver.active /\ UpCurrent # <<>>)
    => upReceiver.got = [kind |-> "keeper", val |-> UpCurrent[Len(UpCurrent)]]

\* The receiver had received v2; the provider of v2 was removed and the receiver received
\* v1 again.
C4_Witness ==
  /\ upLast = "remove"
  /\ upProviders = <<[id |-> 1, val |-> ValueOf(1)]>>
  /\ upReceiver.active
  /\ upReceiver.prev = [kind |-> "keeper", val |-> ValueOf(2)]
  /\ upReceiver.got = [kind |-> "keeper", val |-> ValueOf(1)]

\* The context supply is cut off
UpCutOff == upSupply \in Reasons

\* C14: without a source, a request with an explicit fallback of null or undefined has
\* the ContextKeyError for a value - the default of the key is not used - and receiving it
\* raises that error; a request with a non-null fallback keeper has the fallback for a
\* value, and the receiver receives it.
C14_NullFallbackRejected ==
  (upSlot.grown /\ UpCurrent = <<>> /\ upSlot.hasFallback) =>
    IF upSlot.or = Null
      THEN /\ upValue = KeyErrorKeeper
           /\ (upLast = "receive" /\ ~UpCutOff)
                => (~upReceiver.active /\ upReceiver.failed /\ upReceiver.got = KeyErrorKeeper)
      ELSE /\ upValue = afterThe(FallbackValue)
           /\ (upLast = "receive" /\ ~UpCutOff)
                => (upReceiver.active /\ upReceiver.got = afterThe(FallbackValue))

\* The key has a default, nothing was provided, the request carried a null fallback, and
\* receiving the value has just raised the error.
C14_Witness ==
  /\ upByDefault = DefaultValue
  /\ upNextId = 1
  /\ upSlot.hasFallback
  /\ upSlot.or = Null
  /\ upLast = "receive"
  /\ upReceiver.failed
  /\ upReceiver.got = KeyErrorKeeper

\* C15: values.get(key) always yields a value and raises nothing; with no source, no
\* fallback and no default the value is the ContextKeyError, which is raised when a
\* receiver is registered; with a source the value is the last source and registering a
\* receiver succeeds.
C15_ErrorOnlyOnReceive ==
  /\ upSlot.grown => upValue.kind # "none"
  /\ upLast = "get" => (upSlot.grown /\ ~upReceiver.failed)
  /\ (upSlot.grown /\ UpCurrent = <<>> /\ ~upSlot.hasFallback /\ upByDefault = Null)
       => /\ upValue = KeyErrorKeeper
          /\ (upLast = "receive" /\ ~UpCutOff)
               => (~upReceiver.active /\ upReceiver.failed /\ upReceiver.got = KeyErrorKeeper)
  /\ (upSlot.grown /\ UpCurrent # <<>>)
       => /\ upValue = afterThe(UpCurrent[Len(UpCurrent)])
          /\ (upLast = "receive" /\ ~UpCutOff)
               => (upReceiver.active /\ upReceiver.got = upValue)

\* Receiving the value of a key without default, requested without fallback, had raised
\* the error; a source was provided since, and the receiver has just received it.
C15_Witness ==
  /\ upByDefault = Null
  /\ ~upSlot.hasFallback
  /\ upReceiver.failed
  /\ upLast = "receive"
  /\ upReceiver.active
  /\ upReceiver.got = afterThe(ValueOf(1))

\* C16: a registered receiver holds the current value; when the context supply is cut
\* off with reason R the receiver is cut off with R and keeps what it had received; after
\* that no receiver is active, changes of the sources reach no receiver, and a receiver
\* registered then is cut off with R without receiving anything.
C16_CutOffWithContextSupply ==
  /\ [](upReceiver.active => upReceiver.got = upValue)
  /\ [](UpCutOff => (~upReceiver.active /\ upReceiver.off \in {Null, upSupply}))
  /\ []((UpCutOff /\ upLast = "receive")
          => (upReceiver.off = upSupply /\ upReceiver.got = NoKeeper))
  /\ [][(upLast' = "off" /\ upReceiver.active)
          => /\ upReceiver'.off = upSupply'
             /\ upReceiver'.got = upValue]_vars
  /\ [][(UpCutOff /\ upLast' \in {"provide", "remove"})
          => upReceiver' = upReceiver]_vars

\* The receiver had received v1 and was cut off with R2 along with the context supply;
\* v2, provided afterwards, did not reach it.
C16_Witness ==
  /\ upSupply = "R2"
  /\ upReceiver.off = "R2"
  /\ upReceiver.got = afterThe(ValueOf(1))
  /\ upLast = "provide"
  /\ upValue = afterThe(ValueOf(2))

----------------------------------------------------------------------------
(* Properties of IterativeContextSeeder *)

\* The non-null sources of the given providers, in the order of the providers
PresentSources(fns) ==
  LET present == SelectSeq(fns, LAMBDA fn : SourceOf(fn) # Null)
  IN [i \in Idx(present) |-> SourceOf(present[i])]

\* The providers of the registrations whose remover was not called, in registration order
ItRegistered ==
  LET kept == SelectSeq([i \in Idx(itRegs) |-> i], LAMBDA id : id \notin itRemoved)
  IN [i \in Idx(kept) |-> itRegs[kept[i]]]

\* C12: a complete iteration of a seed yields the elements of the initial seed first,
\* then exactly the non-null sources of the providers registered when the seed was made,
\* in registration order (providers a, null, c yield [a, c]).
C12_CollectionOrder ==
  (itLast.op = "iterate" /\ itLast.error = NotThrown)
    => itLast.yielded = itSeed.initial \o PresentSources(itSeed.atSeed)

\* Providers of a, of null and of c were registered in that order and the seed was made
\* with an initial seed of one element: the iteration yields that element, then a and c.
C12_Witness ==
  /\ itSeed.made
  /\ itSeed.atSeed = <<"pa", "pn", "pc">>
  /\ itRemoved = {}
  /\ itLast.op = "iterate"
  /\ itLast.yielded = <<"i1", "a", "c">>

\* C13: the providers array holds exactly the registrations whose remover was not called,
\* in registration order: a remover removes its own registration only, and calling it
\* again changes nothing.
C13_RemovalExactIdempotent == itProviders = ItRegistered

C19_SeedFixedWhenMade ==
  [][itSeed.made =>
       /\ itSeed'.made
       /\ itSeed'.initial = itSeed.initial
       /\ [i \in Idx(itSeed'.entries) |-> itSeed'.entries[i].fn] = itSeed.atSeed
       /\ (itLast'.op = "iterate" /\ itLast'.error = NotThrown)
            => itLast'.yielded = itSeed.initial \o PresentSources(itSeed.atSeed)]_vars

\* The seed was made for the provider of a; since then that provider was removed and a
\* provider of c was added, and the iteration still yields a.
C19_Witness ==
  /\ itSeed.atSeed = <<"pa">>
  /\ itProviders = <<"pc">>
  /\ itLast.op = "iterate"
  /\ itLast.yielded = itSeed.initial \o <<"a">>

----------------------------------------------------------------------------
(* Properties of CxEntry.perContext *)

\* C17: for every entry and context perContext is invoked at most once, and exactly once
\* as soon as get() was called for the entry there - however many get() calls were made,
\* those made while the definition is in progress included.
C17_PerContextOnce ==
  \A e \in CxEntries, s \in Scopes :
    /\ cxRecords[e][s].perContextCalls <= 1
    /\ cxRecords[e][s].gets >= 1 => cxRecords[e][s].perContextCalls = 1

\* get() was called for an entry while its definition was in progress in that context,
\* after the definition had requested another entry.
C17_Witness ==
  /\ cxLast.op = "get"
  /\ cxLast.reentrant
  /\ Len(cxStack) = 2
  /\ cxRecords[cxLast.entry][cxLast.scope].gets = 2
  /\ cxStack[1] = <<cxLast.entry, cxLast.scope>>

----------------------------------------------------------------------------
(* Properties of asset evaluators and providers that throw *)

\* The loop of cxSingle reaches an evaluator that throws: every asset provided after it
\* evaluates to null.
SglReachesThrow ==
  \E i \in Idx(sglAssets) :
    /\ sglAssets[i].val = Throw
    /\ \A j \in Idx(sglAssets) : j > i => sglAssets[j].val = Null

\* The index of the first entry of the seed whose provider throws; 0 when none does.
ItFirstThrowing ==
  IF \E i \in Idx(itSeed.atSeed) : SourceOf(itSeed.atSeed[i]) = Throw
    THEN CHOOSE i \in Idx(itSeed.atSeed) :
           /\ SourceOf(itSeed.atSeed[i]) = Throw
           /\ \A j \in 1..(i - 1) : SourceOf(itSeed.atSeed[j]) # Throw
    ELSE 0

\* The non-null sources of the providers that precede the first one that throws
ItSourcesBeforeThrow == PresentSources(SubSeq(itSeed.atSeed, 1, ItFirstThrowing - 1))

\* C20: a get() of cxSingle that computes the value throws exactly when its loop reaches
\* an evaluator that throws - it returns neither an older asset nor the default nor null
\* then - and nothing is remembered of the failed computation. An iteration of a seed
\* that reaches a provider that throws ends with what the provider throws, having
\* yielded only the elements that precede it; the provider's entry caches nothing and
\* the entries behind it are not visited.
C20_ErrorsReachCaller ==
  /\ (sglLast.op = "get" /\ sglLast.fresh)
       => /\ (sglLast.value = Throw) <=> SglReachesThrow
          /\ sglLast.value = Throw => ~sglGetMemo[sglLast.scope].done
  /\ \A s \in Scopes : sglGetMemo[s].value # Throw
  /\ (itLast.op = "iterate" /\ ItFirstThrowing = 0) => itLast.error = NotThrown
  /\ (itLast.op = "iterate" /\ ItFirstThrowing > 0)
       => /\ itLast.error = ThrownBy(itSeed.atSeed[ItFirstThrowing])
          /\ itLast.yielded = itSeed.initial \o ItSourcesBeforeThrow
  /\ itLast.op = "isEmpty"
       => (itLast.error # NotThrown)
            <=> (itSeed.initial = <<>> /\ ItFirstThrowing > 0 /\ ItSourcesBeforeThrow = <<>>)
  /\ (itLast.op \in {"iterate", "isEmpty"} /\ itLast.error # NotThrown)
       => /\ ItFirstThrowing \in itLast.invoked
          /\ \A i \in itLast.invoked : i <= ItFirstThrowing
          /\ ~itSeed.entries[ItFirstThrowing].cached
          /\ ~itLast.empty

\* cxSingle has a default and an asset v1; the evaluator of the asset provided after v1
\* throws, and a second get() has thrown like the first one.
C20_Witness ==
  /\ sglByDefault = "dflt"
  /\ sglAssets = <<[id |-> 1, val |-> ValueOf(1)], [id |-> 2, val |-> Throw]>>
  /\ sglLast.op = "get"
  /\ sglLast.value = Throw
  /\ sglComputes[sglLast.scope] = 2

----------------------------------------------------------------------------
(* Properties of ContextModuleUsage *)

\* The places in the log of the last operation where an event of the kind e stands
MuLogged(m, e) == {i \in DOMAIN m.log : m.log[i].e = e}

\* How many times the last operation ran _setup()
MuSetups(m) == Cardinality(MuLogged(m, "setup"))

\* The last use() call was given a supply that was cut off already
MuUseWasCut == muUsers' = muUsers

\* C25: the setup runs when the number of active uses goes from 0 to 1 and when a new
\* implementation is loaded while the module is in use, and at no other time: a use()
\* while a use is active adds a use without a setup, a use() with a supply that is cut
\* off already neither adds a use nor runs the setup.
C25_SetupOnFirstUse ==
  [][/\ muLast'.op = "use" /\ MuUseWasCut =>
          mu'.counter = mu.counter /\ MuSetups(mu') = 0
     /\ muLast'.op = "use" /\ ~MuUseWasCut =>
          /\ mu'.counter = mu.counter + 1
          /\ MuSetups(mu') = IF mu.counter = 0 THEN 1 ELSE 0
     /\ muLast'.op = "implementBy" =>
          MuSetups(mu') = IF muImpl' # Null /\ mu.counter > 0 THEN 1 ELSE 0
     /\ muLast'.op \notin {"use", "implementBy"} => MuSetups(mu') = 0]_vars

\* A second use was added while the first was active, and no setup ran
C25_Witness == muLast.op = "use" /\ mu.counter = 2 /\ MuSetups(mu) = 0

\* C26: when the supply of the last active use is cut off with a reason, the supply the
\* current revision had is cut off, with that reason when it was not cut off before,
\* and the status published has used, settled and ready FALSE; when other uses stay
\* active, neither the revision nor any revision's supply changes.
C26_ReleaseOnLastUse ==
  [][muLast'.op = "userOff" =>
       IF mu'.counter = 0
         THEN /\ mu'.supplies[mu.rev.supply] # "on"
              /\ mu.supplies[mu.rev.supply] = "on" =>
                   mu'.supplies[mu.rev.supply] = muLast'.reason
              /\ ~mu'.rev.status.used
              /\ ~mu'.rev.status.settled
              /\ ~mu'.rev.status.ready
         ELSE /\ mu'.rev = mu.rev
              /\ mu'.supplies = mu.supplies]_vars

\* The last use of a module with a loaded revision was released: the revision's supply
\* is cut off with the reason of the user
C26_Witness ==
  /\ muLast.op = "userOff"
  /\ mu.counter = 0
  /\ muLast.supply # NeverSupply
  /\ mu.supplies[muLast.supply] = UserReason
  /\ MuLogged(mu, "cut") # {}

\* The operations that deliver a result of a setup: settled, ready or an error
MuResults == {"loaded", "ready", "failed", "receive"}

\* C27: a settled, ready or error result that arrives for a revision whose supply is not
\* the supply of the current revision publishes nothing, so the status stays as it is,
\* and the supply of that obsolete revision is cut off.
C27_ObsoleteRevisionDropped ==
  [][muLast'.op \in MuResults /\ mu.rev.supply # muLast'.supply =>
       /\ mu'.rev = mu.rev
       /\ MuLogged(mu', "publish") = {}
       /\ mu'.supplies[muLast'.supply] # "on"]_vars

\* A load finished for a revision that was replaced by the revision which is current
\* and still on
C27_Witness ==
  /\ muLast.op \in {"loaded", "ready"}
  /\ muLast.supply # mu.rev.supply
  /\ muLast.supply # NeverSupply
  /\ mu.supplies[muLast.supply] # "on"
  /\ mu.supplies[mu.rev.supply] = "on"
  /\ mu.rev.status.provided

\* C28: what a module provided through the provide() of its setup stays provided only
\* while the supply of the revision it was loaded for is on: once that supply is cut
\* off, the asset is revoked.
C28_ProvidedNeedsRevision ==
  \A s \in MuSupplies : mu.assets[s] = "provided" => mu.supplies[s] = "on"

\* The supply of a revision was cut off by the last operation, and the asset the module
\* had provided for that revision is revoked
C28_Witness ==
  \E i \in MuLogged(mu, "cut") :
    /\ mu.assets[mu.log[i].supply] = "revoked"
    /\ mu.supplies[mu.log[i].supply] # "on"

\* C29: when implementBy() delivers a module, the first thing done is to publish a new
\* revision with a supply created for it and the status provided, not settled, not ready
\* and used exactly when a use is active; the setup is started for it exactly when a use
\* is active; the supply the revision had before is cut off after that, and nothing is
\* published after the cut-off, so the revision stays the new one, provided and on.
C29_ImplementationReplaced ==
  [][muLast'.op = "implementBy" /\ muImpl' # Null =>
       LET log == mu'.log
           new == MuFresh(mu)
           prev == mu.rev.supply
           used == mu.counter > 0
       IN /\ log # <<>>
          /\ log[1] = MuEvent("publish", new,
                              MuStatus(muImpl', TRUE, used, FALSE, FALSE, Null), Null)
          /\ MuSetups(mu') = IF used THEN 1 ELSE 0
          /\ used => log[2].e = "setup" /\ log[2].supply = new
          /\ mu'.supplies[prev] # "on"
          /\ \A i \in MuLogged(mu', "cut") :
               /\ log[i].supply = prev
               /\ i = Len(log)
          /\ mu'.rev.supply = new
          /\ mu'.rev.status.provided
          /\ mu'.rev.status.module = muImpl'
          /\ mu'.rev.status.used = used
          /\ mu'.supplies[new] = "on"]_vars

\* The implementation of a module in use was replaced: the setup was started for the new
\* revision and the supply of the revision loaded before was cut off
C29_Witness ==
  /\ muLast.op = "implementBy"
  /\ muImpl # Null
  /\ muLast.supply # NeverSupply
  /\ mu.counter > 0
  /\ MuSetups(mu) = 1
  /\ \E i \in MuLogged(mu, "cut") : mu.log[i].supply = muLast.supply

====
